---- MODULE Spec2Model ----
(***************************************************************************)
(* The secret-santa backend: the exchange routes                           *)
(* (src/backend/routes/exchanges.js) running against the persistence       *)
(* layer (src/backend/database-json.js, the SQL store of                   *)
(* src/unnamed/part_008).  Every route handler is an async function; it    *)
(* is modelled one database call per step.  The Node event loop runs one   *)
(* handler at a time and switches handlers only where a handler awaits     *)
(* real I/O: `cur` is the handler that holds the thread (0 when none).     *)
(*                                                                         *)
(* What is left out: the display fields of an exchange (name, giftBudget,  *)
(* dates), which no guard reads; the getFullExchange read that builds the  *)
(* response body, which changes nothing, so a handler answers in the step  *)
(* of its last write; failures of reads (only writes throw); and, for a    *)
(* process stop, the loss of the JSON file's last write.  The requests of  *)
(* the admission routes carry their userId, and those of POST              *)
(* /api/assignments their three ids (a missing one is answered 400 before  *)
(* any store call); the users they name are registered, except in          *)
(* SpecStrangers and SpecBackends.  The client methods run on the exchange *)
(* as the server returns it at the call, never on an older copy.  The      *)
(* exchanges are created by one user, Creator.                             *)
(***************************************************************************)
EXTENDS Integers, Sequences, FiniteSets, TLC

\* ---------------------------------------------------------------- bounds
MaxParticipants == 4
MaxPending == 2
MaxAssignments == 6

\* userIds.length < 3
MinParticipants == 3

Slots == 1..2
\* the registered users of a run; Creator creates the exchanges
Users == {"A", "B", "C"}
MoreUsers == {"A", "B", "C", "D"}
Creator == "A"
\* the users whose role is 'admin'
Admins == {"C"}
ExchangeIds == {"e1"}
\* the ids of a run with two exchanges
MoreExchangeIds == {"e1", "e2"}
Backends == {"json", "sqlite", "postgres"}

\* a request body field is either absent (undefined) or carries a value
Undefined == {}
Some(v) == {v}

VARIABLES
    users,                \* data.users: the ids of the registered users
    backend,              \* which store the Database constructor selected
    exchanges,            \* id -> exchange row, for the ids that exist
    participants,         \* data.participants: array of rows
    pendingParticipants,  \* data.pendingParticipants: array of rows
    assignments,          \* data.assignments: array of rows
    req,                  \* slot -> the request handled there, its locals
    cur,                  \* slot of the handler holding the JS thread, or 0
    last,                 \* the response this step sent, Idle if it sent none
    ids,                  \* the exchange ids generateId has handed out
    faulty,               \* can a store write throw in this run?
    generations           \* exchange id -> the Generate requests answered 201

vars == <<users, backend, exchanges, participants, pendingParticipants, assignments,
          req, cur, last, ids, faulty, generations>>

store == <<exchanges, participants, pendingParticipants, assignments>>

\* ------------------------------------------------------- store: queries
SqlBackend == backend \in {"sqlite", "postgres"}

\* does the database call give the event loop a chance to run another
\* handler?  pg queries are network I/O; the JSON store awaits real I/O
\* only in save(); better-sqlite3 is synchronous.
Yields(kind) ==
    \/ backend = "postgres"
    \/ backend = "json" /\ kind = "write"

getExchangeById(id) ==
    IF id \in DOMAIN exchanges THEN Some(exchanges[id]) ELSE Undefined

getParticipantsByExchangeId(e) ==
    SelectSeq(participants, LAMBDA p: p.exchangeId = e)

getPendingParticipantsByExchangeId(e) ==
    SelectSeq(pendingParticipants, LAMBDA p: p.exchangeId = e)

getAssignmentsByExchangeId(e) ==
    SelectSeq(assignments, LAMBDA a: a.exchangeId = e)

UserIdsOf(rows) == [k \in 1..Len(rows) |-> rows[k].userId]

\* participants.map(p => p.userId), as a set
ParticipantIdsOf(e) ==
    LET ps == UserIdsOf(getParticipantsByExchangeId(e))
    IN  {ps[k] : k \in 1..Len(ps)}

getParticipant(e, u) ==
    \E k \in 1..Len(participants):
        participants[k].exchangeId = e /\ participants[k].userId = u

getPendingParticipant(e, u) ==
    \E k \in 1..Len(pendingParticipants):
        pendingParticipants[k].exchangeId = e /\ pendingParticipants[k].userId = u

getAssignmentForGiver(e, u) ==
    \E k \in 1..Len(assignments):
        assignments[k].exchangeId = e /\ assignments[k].giverId = u

\* findIndex: the first row of (e, u), or 0
RECURSIVE findIndexFrom(_, _, _, _)
findIndexFrom(rows, e, u, k) ==
    IF k > Len(rows) THEN 0
    ELSE IF rows[k].exchangeId = e /\ rows[k].userId = u THEN k
    ELSE findIndexFrom(rows, e, u, k + 1)

findIndex(rows, e, u) == findIndexFrom(rows, e, u, 1)

\* splice(index, 1)
splice(rows, k) ==
    [j \in 1..(Len(rows) - 1) |-> IF j < k THEN rows[j] ELSE rows[j + 1]]

\* ------------------------------------------- store: constraint checks
\* The SQL schema declares REFERENCES exchanges(id), REFERENCES users(id)
\* and UNIQUE(exchange_id, user_id) / UNIQUE(exchange_id, giver_id); the
\* JSON store pushes the row without looking.
\* would the store b take the row?
ParticipantInsertAcceptedBy(b, e, u) ==
    b \in {"sqlite", "postgres"} =>
        (e \in DOMAIN exchanges /\ u \in users /\ ~getParticipant(e, u))

PendingInsertAcceptedBy(b, e, u) ==
    b \in {"sqlite", "postgres"} =>
        (e \in DOMAIN exchanges /\ u \in users /\ ~getPendingParticipant(e, u))

AssignmentInsertAcceptedBy(b, e, g) ==
    b \in {"sqlite", "postgres"} =>
        (e \in DOMAIN exchanges /\ ~getAssignmentForGiver(e, g))

ParticipantInsertAccepted(e, u) == ParticipantInsertAcceptedBy(backend, e, u)

PendingInsertAccepted(e, u) == PendingInsertAcceptedBy(backend, e, u)

AssignmentInsertAccepted(e, g) == AssignmentInsertAcceptedBy(backend, e, g)

\* --------------------------------------------------------- the requests
\* the fields of a PATCH body the store looks at
NoBody == [status |-> Undefined, assignmentsGenerated |-> Undefined]

\* a handler's locals; `seen` is exchange.assignmentsGenerated as read by
\* its db.getExchangeById call, `requesterId` the caller of a read route,
\* `created` the assignments the response carries
Idle ==
    [op |-> "none", pc |-> "idle", exchangeId |-> "none", userId |-> "none",
     requesterId |-> "none", body |-> NoBody, seen |-> FALSE, userIds |-> <<>>,
     recipients |-> <<>>, created |-> <<>>, result |-> "none"]

NewRequest(op, pc, e, u) ==
    [Idle EXCEPT !.op = op, !.pc = pc, !.exchangeId = e, !.userId = u]

InFlight(s) == req[s].pc # "idle"

\* a request is dispatched to a free handler when no handler holds the thread
CanStart(s) ==
    /\ cur = 0
    /\ ~InFlight(s)
    /\ \A z \in Slots: z < s => InFlight(z)

\* handler s may run its next step
CanStep(s, op, pc) ==
    /\ req[s].op = op
    /\ req[s].pc = pc
    /\ cur \in {0, s}

\* res.status(...).json(...): the handler returns
Respond(s, r, result) ==
    /\ last' = [r EXCEPT !.pc = "done", !.result = result,
                         !.recipients = <<>>, !.body = NoBody]
    /\ req' = [req EXCEPT ![s] = Idle]
    /\ cur' = 0

\* the handler goes on to its next database call
Goto(s, r, pc, kind) ==
    /\ req' = [req EXCEPT ![s] = [r EXCEPT !.pc = pc]]
    /\ last' = Idle
    /\ cur' = IF Yields(kind) THEN 0 ELSE s

\* the outcomes of a store write: it succeeds, or it throws
WriteOutcomes == IF faulty THEN {"ok", "fail"} ELSE {"ok"}

\* a row reaches the array of the JSON store before save() can throw; a
\* failed SQL statement changes nothing
Applied(outcome) == outcome = "ok" \/ backend = "json"

InitWith(f, registered) ==
    /\ users = registered
    /\ backend \in Backends
    /\ exchanges = << >>
    /\ participants = <<>>
    /\ pendingParticipants = <<>>
    /\ assignments = <<>>
    /\ req = [s \in Slots |-> Idle]
    /\ cur = 0
    /\ last = Idle
    /\ ids = {}
    /\ faulty = f
    /\ generations = [e \in MoreExchangeIds |-> 0]

\* the store as the Database constructor leaves it
Init == InitWith(TRUE, Users)

\* the same, in a run where no store write throws
InitReliable == InitWith(FALSE, Users)

\* the same, with one more registered user
InitMoreUsers == InitWith(FALSE, MoreUsers)

\* -------------------------------------------------- POST /api/exchanges
\* valid: name, giftBudget and createdBy are all present in the body
CreateExchange(s, id, valid) ==
    /\ CanStart(s)
    /\ id \notin ids
    /\ LET r == NewRequest("create", "start", id, Creator)
       IN IF ~valid
          THEN /\ Respond(s, r, "InvalidInput")
               /\ UNCHANGED store
          ELSE \E outcome \in WriteOutcomes:
               /\ exchanges' =
                    IF Applied(outcome)
                    THEN [x \in DOMAIN exchanges \cup {id} |->
                            IF x = id
                            THEN [createdBy |-> Creator, status |-> "active",
                                  assignmentsGenerated |-> FALSE]
                            ELSE exchanges[x]]
                    ELSE exchanges
               /\ IF outcome = "ok"
                  THEN Goto(s, r, "addParticipant", "write")
                  ELSE Respond(s, r, "InternalError")
               /\ UNCHANGED <<participants, pendingParticipants, assignments>>
    /\ ids' = IF valid THEN ids \cup {id} ELSE ids
    /\ UNCHANGED <<users, backend, faulty, generations>>

\* db.addParticipant: push the row (JSON), INSERT it (SQL)
addParticipant(e, u, outcome) ==
    participants' =
        IF ParticipantInsertAccepted(e, u) /\ Applied(outcome)
        THEN Append(participants, [exchangeId |-> e, userId |-> u])
        ELSE participants

\* the handler without its db.addParticipant call
CreateExchange_withoutParticipant(s) ==
    /\ CanStep(s, "create", "addParticipant")
    /\ Respond(s, req[s], "OK")
    /\ UNCHANGED <<users, backend, store, ids, faulty, generations>>

\* db.addParticipant({exchangeId, userId: createdBy}), then the response
CreateExchange_addParticipant(s) ==
    /\ CanStep(s, "create", "addParticipant")
    /\ Len(participants) < MaxParticipants
    /\ \E outcome \in WriteOutcomes:
        /\ addParticipant(req[s].exchangeId, req[s].userId, outcome)
        /\ IF ParticipantInsertAccepted(req[s].exchangeId, req[s].userId)
                /\ outcome = "ok"
           THEN Respond(s, req[s], "OK")
           ELSE Respond(s, req[s], "InternalError")
    /\ UNCHANGED <<users, backend, exchanges, pendingParticipants, assignments, ids, faulty, generations>>

\* ------------------------------------ POST /api/exchanges/:id/request-join
RequestJoin(s, e, u) ==
    /\ CanStart(s)
    /\ LET r == NewRequest("requestJoin", "start", e, u)
       IN IF getExchangeById(e) = Undefined
          THEN Respond(s, r, "NotFound")
          ELSE Goto(s, [r EXCEPT !.seen = exchanges[e].assignmentsGenerated],
                    "getParticipant", "read")
    /\ UNCHANGED <<users, backend, store, ids, faulty, generations>>

RequestJoin_getParticipant(s) ==
    /\ CanStep(s, "requestJoin", "getParticipant")
    /\ IF getParticipant(req[s].exchangeId, req[s].userId)
       THEN Respond(s, req[s], "AlreadyParticipant")
       ELSE Goto(s, req[s], "getPending", "read")
    /\ UNCHANGED <<users, backend, store, ids, faulty, generations>>

\* the handler without its pending check
RequestJoin_skipPendingCheck(s) ==
    /\ CanStep(s, "requestJoin", "getPending")
    /\ Goto(s, req[s], "addPending", "read")
    /\ UNCHANGED <<users, backend, store, ids, faulty, generations>>

RequestJoin_getPendingParticipant(s) ==
    /\ CanStep(s, "requestJoin", "getPending")
    /\ IF getPendingParticipant(req[s].exchangeId, req[s].userId)
       THEN Respond(s, req[s], "AlreadyPending")
       ELSE Goto(s, req[s], "addPending", "read")
    /\ UNCHANGED <<users, backend, store, ids, faulty, generations>>

RequestJoin_addPendingParticipant(s) ==
    /\ CanStep(s, "requestJoin", "addPending")
    /\ Len(pendingParticipants) < MaxPending
    /\ \E outcome \in WriteOutcomes:
        LET e == req[s].exchangeId
            u == req[s].userId
            accepted == PendingInsertAccepted(e, u)
        IN  /\ pendingParticipants' =
                 IF accepted /\ Applied(outcome)
                 THEN Append(pendingParticipants, [exchangeId |-> e, userId |-> u])
                 ELSE pendingParticipants
            /\ IF accepted /\ outcome = "ok"
               THEN Respond(s, req[s], "OK")
               ELSE Respond(s, req[s], "InternalError")
    /\ UNCHANGED <<users, backend, exchanges, participants, assignments, ids, faulty, generations>>

\* ----------------------------- POST /api/exchanges/:id/approve-participant
ApproveParticipant(s, e, u) ==
    /\ CanStart(s)
    /\ LET r == NewRequest("approve", "start", e, u)
       IN IF getExchangeById(e) = Undefined
          THEN Respond(s, r, "NotFound")
          ELSE Goto(s, [r EXCEPT !.seen = exchanges[e].assignmentsGenerated],
                    "getPending", "read")
    /\ UNCHANGED <<users, backend, store, ids, faulty, generations>>

\* the handler without its pending check
ApproveParticipant_skipPendingCheck(s) ==
    /\ CanStep(s, "approve", "getPending")
    /\ Goto(s, req[s], "removePending", "read")
    /\ UNCHANGED <<users, backend, store, ids, faulty, generations>>

ApproveParticipant_getPendingParticipant(s) ==
    /\ CanStep(s, "approve", "getPending")
    /\ IF ~getPendingParticipant(req[s].exchangeId, req[s].userId)
       THEN Respond(s, req[s], "NoPendingRequest")
       ELSE Goto(s, req[s], "removePending", "read")
    /\ UNCHANGED <<users, backend, store, ids, faulty, generations>>

\* db.removePendingParticipant: splice the first row of the pair out
\* (JSON), DELETE the rows of the pair (SQL); save() is reached, and can
\* throw, only when a row was found
\* the removal with the userId test left out of its filter
removePendingOfExchange(s, outcome) ==
    pendingParticipants' =
        IF Applied(outcome)
        THEN SelectSeq(pendingParticipants,
                       LAMBDA p: p.exchangeId # req[s].exchangeId)
        ELSE pendingParticipants

\* the removal with splice(index, 2)
removePendingParticipant_spliceTwo(s, outcome) ==
    LET k == findIndex(pendingParticipants, req[s].exchangeId, req[s].userId)
    IN  pendingParticipants' =
            IF k # 0 /\ Applied(outcome)
            THEN IF k < Len(pendingParticipants)
                 THEN splice(splice(pendingParticipants, k), k)
                 ELSE splice(pendingParticipants, k)
            ELSE pendingParticipants

removePendingParticipant(s, outcome) ==
    LET k == findIndex(pendingParticipants, req[s].exchangeId, req[s].userId)
    IN  pendingParticipants' =
            IF k # 0 /\ Applied(outcome) THEN splice(pendingParticipants, k)
            ELSE pendingParticipants

removeThrows(s, outcome) ==
    /\ outcome = "fail"
    /\ backend = "json" =>
          findIndex(pendingParticipants, req[s].exchangeId, req[s].userId) # 0

\* its return value is not looked at
ApproveParticipant_removePendingParticipant(s) ==
    /\ CanStep(s, "approve", "removePending")
    /\ \E outcome \in WriteOutcomes:
        /\ removePendingParticipant(s, outcome)
        /\ IF removeThrows(s, outcome)
           THEN Respond(s, req[s], "InternalError")
           ELSE Goto(s, req[s], "addParticipant", "write")
    /\ UNCHANGED <<users, backend, exchanges, participants, assignments, ids, faulty, generations>>

ApproveParticipant_addParticipant(s) ==
    /\ CanStep(s, "approve", "addParticipant")
    /\ Len(participants) < MaxParticipants
    /\ \E outcome \in WriteOutcomes:
        /\ addParticipant(req[s].exchangeId, req[s].userId, outcome)
        /\ IF ParticipantInsertAccepted(req[s].exchangeId, req[s].userId)
                /\ outcome = "ok"
           THEN Respond(s, req[s], "OK")
           ELSE Respond(s, req[s], "InternalError")
    /\ UNCHANGED <<users, backend, exchanges, pendingParticipants, assignments, ids, faulty, generations>>

\* ----------------------------- POST /api/exchanges/:id/decline-participant
DeclineParticipant(s, e, u) ==
    /\ CanStart(s)
    /\ LET r == NewRequest("decline", "start", e, u)
       IN IF getExchangeById(e) = Undefined
          THEN Respond(s, r, "NotFound")
          ELSE Goto(s, [r EXCEPT !.seen = exchanges[e].assignmentsGenerated],
                    "removePending", "read")
    /\ UNCHANGED <<users, backend, store, ids, faulty, generations>>

\* the handler without the test of `removed`
DeclineParticipant_ignoreRemoved(s) ==
    /\ CanStep(s, "decline", "removePending")
    /\ \E outcome \in WriteOutcomes:
        /\ removePendingParticipant(s, outcome)
        /\ IF removeThrows(s, outcome)
           THEN Respond(s, req[s], "InternalError")
           ELSE Respond(s, req[s], "OK")
    /\ UNCHANGED <<users, backend, exchanges, participants, assignments, ids, faulty, generations>>

DeclineParticipant_removePendingParticipant(s) ==
    /\ CanStep(s, "decline", "removePending")
    /\ \E outcome \in WriteOutcomes:
        /\ removePendingParticipant(s, outcome)
        /\ IF removeThrows(s, outcome)
           THEN Respond(s, req[s], "InternalError")
           ELSE IF findIndex(pendingParticipants, req[s].exchangeId, req[s].userId) = 0
           THEN Respond(s, req[s], "NoPendingRequest")
           ELSE Respond(s, req[s], "OK")
    /\ UNCHANGED <<users, backend, exchanges, participants, assignments, ids, faulty, generations>>

\* ---------------------------- POST /api/exchanges/:id/generate-assignments
Swap(R, a, b) == [R EXCEPT ![a] = R[b], ![b] = R[a]]

\* the choices of a shuffle that lets position i be swapped with itself
ShuffleChoices_withSelf(n) ==
    {js \in [2..n -> 1..n] : \A i \in 2..n: js[i] <= i}

\* the values Math.floor(Math.random() * i) can take, for every i of the
\* loop: js[i] is the position swapped with position i (positions from 1)
ShuffleChoices(n) ==
    {js \in [2..n -> 1..(n - 1)] : \A i \in 2..n: js[i] < i}

\* for (i = n - 1; i > 0; i--) swap recipients[i], recipients[j]
RECURSIVE shuffleFrom(_, _, _)
shuffleFrom(R, i, js) ==
    IF i < 2 THEN R ELSE shuffleFrom(Swap(R, i, js[i]), i - 1, js)

shuffle(P, js) == shuffleFrom(P, Len(P), js)

\* the repair pass without the wrap to position 0: at the last index it
\* has no position to swap with
RECURSIVE fixPassFrom_noWrap(_, _, _)
fixPassFrom_noWrap(P, R, i) ==
    IF i > Len(P) THEN R
    ELSE fixPassFrom_noWrap(P,
             IF P[i] = R[i] /\ i < Len(P) THEN Swap(R, i, i + 1) ELSE R,
             i + 1)

\* for (i = 0; i < n; i++) if (userIds[i] === recipients[i]) swap
\* recipients[i] with recipients[(i + 1) % n]
RECURSIVE fixPassFrom(_, _, _)
fixPassFrom(P, R, i) ==
    IF i > Len(P) THEN R
    ELSE fixPassFrom(P,
                     IF P[i] = R[i] THEN Swap(R, i, (i % Len(P)) + 1) ELSE R,
                     i + 1)

fixPass(P, R) == fixPassFrom(P, R, 1)

GenerateAssignments(s, e) ==
    /\ CanStart(s)
    /\ LET r == NewRequest("generate", "start", e, "none")
       IN IF getExchangeById(e) = Undefined
          THEN Respond(s, r, "NotFound")
          ELSE Goto(s, [r EXCEPT !.seen = exchanges[e].assignmentsGenerated],
                    "getParticipants", "read")
    /\ UNCHANGED <<users, backend, store, ids, faulty, generations>>

\* the handler with its size guard off by one: userIds.length < 2
GenerateAssignments_minTwo(s) ==
    /\ CanStep(s, "generate", "getParticipants")
    /\ LET userIds == UserIdsOf(getParticipantsByExchangeId(req[s].exchangeId))
       IN IF Len(userIds) < MinParticipants - 1
          THEN Respond(s, req[s], "InsufficientParticipants")
          ELSE IF req[s].seen
          THEN Respond(s, req[s], "AlreadyGenerated")
          ELSE \E js \in ShuffleChoices(Len(userIds)):
                 Goto(s, [req[s] EXCEPT
                            !.userIds = userIds,
                            !.recipients = fixPass(userIds, shuffle(userIds, js))],
                      "createAssignment", "read")
    /\ UNCHANGED <<users, backend, store, ids, faulty, generations>>

\* db.getParticipantsByExchangeId, the two guards, the shuffle and the
\* repair pass
GenerateAssignments_getParticipants(s) ==
    /\ CanStep(s, "generate", "getParticipants")
    /\ LET userIds == UserIdsOf(getParticipantsByExchangeId(req[s].exchangeId))
       IN IF Len(userIds) < MinParticipants
          THEN Respond(s, req[s], "InsufficientParticipants")
          ELSE IF req[s].seen
          THEN Respond(s, req[s], "AlreadyGenerated")
          ELSE \E js \in ShuffleChoices(Len(userIds)):
                 Goto(s, [req[s] EXCEPT
                            !.userIds = userIds,
                            !.recipients = fixPass(userIds, shuffle(userIds, js))],
                      "createAssignment", "read")
    /\ UNCHANGED <<users, backend, store, ids, faulty, generations>>

\* one turn of the persist loop: i = created.length
GenerateAssignments_createAssignment(s) ==
    /\ CanStep(s, "generate", "createAssignment")
    /\ LET e == req[s].exchangeId
           i == Len(req[s].created) + 1
           giverId == req[s].userIds[i]
           recipientId == req[s].recipients[i]
           row == [exchangeId |-> e, giverId |-> giverId, recipientId |-> recipientId]
           accepted == AssignmentInsertAccepted(e, giverId)
       IN IF giverId = recipientId
          THEN /\ Respond(s, req[s], "AssignmentGenerationFailed")
               /\ UNCHANGED assignments
          ELSE /\ Len(assignments) < MaxAssignments
               /\ \E outcome \in WriteOutcomes:
                    /\ assignments' =
                         IF accepted /\ Applied(outcome)
                         THEN Append(assignments, row)
                         ELSE assignments
                    /\ IF accepted /\ outcome = "ok"
                       THEN Goto(s, [req[s] EXCEPT !.created = Append(@, row)],
                                 IF i < Len(req[s].userIds)
                                 THEN "createAssignment" ELSE "updateExchange",
                                 "write")
                       ELSE Respond(s, req[s], "InternalError")
    /\ UNCHANGED <<users, backend, exchanges, participants, pendingParticipants, ids, faulty, generations>>

\* db.updateExchange(id, updates): merge the updates into the row; null,
\* and no write, when the row is gone or (SQL) no column is named
updateExchange(id, updates, outcome) ==
    exchanges' =
        IF id \in DOMAIN exchanges /\ Applied(outcome)
        THEN [exchanges EXCEPT ![id] =
                [@ EXCEPT
                   !.status = IF updates.status = Undefined THEN @
                              ELSE CHOOSE v \in updates.status: TRUE,
                   !.assignmentsGenerated =
                       IF updates.assignmentsGenerated = Undefined THEN @
                       ELSE CHOOSE v \in updates.assignmentsGenerated: TRUE]]
        ELSE exchanges

updateThrows(id, updates, outcome) ==
    /\ outcome = "fail"
    /\ backend = "json" => id \in DOMAIN exchanges
    /\ SqlBackend => updates # NoBody

\* db.updateExchange(exchangeId, { assignmentsGenerated: true }), then 201
GenerateAssignments_updateExchange(s) ==
    /\ CanStep(s, "generate", "updateExchange")
    /\ LET updates == [NoBody EXCEPT !.assignmentsGenerated = Some(TRUE)]
       IN \E outcome \in WriteOutcomes:
            /\ updateExchange(req[s].exchangeId, updates, outcome)
            /\ IF updateThrows(req[s].exchangeId, updates, outcome)
               THEN /\ Respond(s, req[s], "InternalError")
                    /\ UNCHANGED generations
               ELSE /\ Respond(s, req[s], "OK")
                    /\ generations' = [generations EXCEPT ![req[s].exchangeId] = @ + 1]
    /\ UNCHANGED <<users, backend, participants, pendingParticipants, assignments, ids, faulty>>

\* ------------------------------------------------ PATCH /api/exchanges/:id
PatchBodies ==
    [status : {Undefined},
     assignmentsGenerated : {Undefined, Some(TRUE), Some(FALSE)}]

PatchExchange(s, e, body) ==
    /\ CanStart(s)
    /\ LET r == [NewRequest("patch", "start", e, "none") EXCEPT !.body = body]
       IN IF getExchangeById(e) = Undefined
          THEN Respond(s, r, "NotFound")
          ELSE Goto(s, [r EXCEPT !.seen = exchanges[e].assignmentsGenerated],
                    "updateExchange", "read")
    /\ UNCHANGED <<users, backend, store, ids, faulty, generations>>

PatchExchange_updateExchange(s) ==
    /\ CanStep(s, "patch", "updateExchange")
    /\ \E outcome \in WriteOutcomes:
         /\ updateExchange(req[s].exchangeId, req[s].body, outcome)
         /\ IF updateThrows(req[s].exchangeId, req[s].body, outcome)
            THEN Respond(s, req[s], "InternalError")
            ELSE Respond(s, req[s], "OK")
    /\ UNCHANGED <<users, backend, participants, pendingParticipants, assignments, ids, faulty, generations>>

\* ----------------------------------------------- DELETE /api/exchanges/:id
\* the deletion without the filter of pendingParticipants
DeleteExchange_keepPending(s, e) ==
    /\ CanStart(s)
    /\ LET r == NewRequest("delete", "start", e, "none")
           found == e \in DOMAIN exchanges
       IN  /\ exchanges' =
                IF found THEN [x \in DOMAIN exchanges \ {e} |-> exchanges[x]]
                ELSE exchanges
           /\ participants' =
                IF found THEN SelectSeq(participants, LAMBDA p: p.exchangeId # e)
                ELSE participants
           /\ assignments' =
                IF found THEN SelectSeq(assignments, LAMBDA a: a.exchangeId # e)
                ELSE assignments
           /\ IF ~found THEN Respond(s, r, "NotFound") ELSE Respond(s, r, "OK")
    /\ UNCHANGED <<users, backend, pendingParticipants, ids, faulty, generations>>

\* db.deleteExchange: the rows of the exchange go with it (filter, ON
\* DELETE CASCADE)
DeleteExchange(s, e) ==
    /\ CanStart(s)
    /\ LET r == NewRequest("delete", "start", e, "none")
       IN \E outcome \in WriteOutcomes:
            LET found == e \in DOMAIN exchanges
                gone == found /\ Applied(outcome)
                throws == outcome = "fail" /\ (backend = "json" => found)
            IN  /\ exchanges' =
                     IF gone THEN [x \in DOMAIN exchanges \ {e} |-> exchanges[x]]
                     ELSE exchanges
                /\ participants' =
                     IF gone THEN SelectSeq(participants, LAMBDA p: p.exchangeId # e)
                     ELSE participants
                /\ pendingParticipants' =
                     IF gone
                     THEN SelectSeq(pendingParticipants, LAMBDA p: p.exchangeId # e)
                     ELSE pendingParticipants
                /\ assignments' =
                     IF gone THEN SelectSeq(assignments, LAMBDA a: a.exchangeId # e)
                     ELSE assignments
                /\ IF throws THEN Respond(s, r, "InternalError")
                   ELSE IF ~found THEN Respond(s, r, "NotFound")
                   ELSE Respond(s, r, "OK")
    /\ UNCHANGED <<users, backend, ids, faulty, generations>>

\* ------------------------------------- the client: Exchange.removeParticipant
\* The client object is the exchange as the server last returned it.  The
\* method checks that object, drops the user from its own participant list
\* and calls save(), a PATCH of name, giftBudget, status, participants,
\* pendingParticipants and assignmentsGenerated.
Exchange_removeParticipant(s, e, u) ==
    /\ CanStart(s)
    /\ LET q == NewRequest("removeParticipant", "start", e, u)
       IN IF getExchangeById(e) = Undefined
          THEN Respond(s, q, "NotFound")
          ELSE IF u \notin ParticipantIdsOf(e)
          THEN Respond(s, q, "NotParticipant")
          ELSE IF exchanges[e].assignmentsGenerated
          THEN Respond(s, [q EXCEPT !.seen = TRUE], "ExchangeClosed")
          ELSE Goto(s, [q EXCEPT !.body =
                            [status |-> Some(exchanges[e].status),
                             assignmentsGenerated |-> Some(FALSE)]],
                    "updateExchange", "read")
    /\ UNCHANGED <<users, backend, store, ids, faulty, generations>>

\* Exchange.close, Exchange.reopen, Exchange.complete on the exchange as
\* the server returns it now: the status is set on the object and save()
\* sends it with the object's assignmentsGenerated
Exchange_close(s, e) ==
    /\ CanStart(s)
    /\ LET q == NewRequest("close", "start", e, "none")
       IN IF getExchangeById(e) = Undefined
          THEN Respond(s, q, "NotFound")
          ELSE IF exchanges[e].status = "closed"
          THEN Respond(s, q, "OK")
          ELSE IF ~exchanges[e].assignmentsGenerated
          THEN Respond(s, q, "NotGenerated")
          ELSE Goto(s, [q EXCEPT !.seen = TRUE,
                                 !.body = [status |-> Some("closed"),
                                           assignmentsGenerated |-> Some(TRUE)]],
                    "updateExchange", "read")
    /\ UNCHANGED <<users, backend, store, ids, faulty, generations>>

Exchange_reopen(s, e) ==
    /\ CanStart(s)
    /\ LET q == NewRequest("reopen", "start", e, "none")
       IN IF getExchangeById(e) = Undefined
          THEN Respond(s, q, "NotFound")
          ELSE IF exchanges[e].assignmentsGenerated
          THEN Respond(s, [q EXCEPT !.seen = TRUE], "AlreadyGenerated")
          ELSE Goto(s, [q EXCEPT !.body = [status |-> Some("open"),
                                           assignmentsGenerated |-> Some(FALSE)]],
                    "updateExchange", "read")
    /\ UNCHANGED <<users, backend, store, ids, faulty, generations>>

Exchange_complete(s, e) ==
    /\ CanStart(s)
    /\ LET q == NewRequest("complete", "start", e, "none")
       IN IF getExchangeById(e) = Undefined
          THEN Respond(s, q, "NotFound")
          ELSE Goto(s, [q EXCEPT
                          !.seen = exchanges[e].assignmentsGenerated,
                          !.body = [status |-> Some("completed"),
                                    assignmentsGenerated |->
                                        Some(exchanges[e].assignmentsGenerated)]],
                    "updateExchange", "read")
    /\ UNCHANGED <<users, backend, store, ids, faulty, generations>>

\* the client methods that end in save()
SavingOps == {"removeParticipant", "close", "reopen", "complete"}

\* the PATCH handler for that save(): it copies status and
\* assignmentsGenerated into the row and reads no participant list
Exchange_save(s) ==
    /\ req[s].op \in SavingOps
    /\ CanStep(s, req[s].op, "updateExchange")
    /\ \E outcome \in WriteOutcomes:
         /\ updateExchange(req[s].exchangeId, req[s].body, outcome)
         /\ IF updateThrows(req[s].exchangeId, req[s].body, outcome)
            THEN Respond(s, req[s], "InternalError")
            ELSE Respond(s, req[s], "OK")
    /\ UNCHANGED <<users, backend, participants, pendingParticipants, assignments, ids, faulty, generations>>

\* ------------------------------------------------- GET /api/assignments/...
getUserById(id) == IF id \in users THEN Some(id) ELSE Undefined

getAssignmentsForRecipient(e, u) ==
    SelectSeq(assignments, LAMBDA a: a.exchangeId = e /\ a.recipientId = u)

\* the row db.getAssignmentForGiver returns (find: the first one), as a
\* list of one row, or of none when it returns null
findAssignmentForGiver(e, g) ==
    LET rows == SelectSeq(assignments, LAMBDA a: a.exchangeId = e /\ a.giverId = g)
    IN  IF rows = <<>> THEN <<>> ELSE <<rows[1]>>

\* GET /exchange/:exchangeId?requesterId=r : admin and creator get every
\* assignment of the exchange, a participant the one they give
GetExchangeAssignments(s, e, r) ==
    /\ CanStart(s)
    /\ LET q == [NewRequest("getExchangeAssignments", "start", e, "none")
                   EXCEPT !.requesterId = r]
           isAdmin == r \in Admins
           isCreator == exchanges[e].createdBy = r
           participantIds == UserIdsOf(getParticipantsByExchangeId(e))
       IN IF getExchangeById(e) = Undefined
          THEN Respond(s, q, "NotFound")
          ELSE IF getUserById(r) = Undefined
          THEN Respond(s, q, "NotFound")
          ELSE IF isAdmin \/ isCreator
          THEN Respond(s, [q EXCEPT !.created = getAssignmentsByExchangeId(e)], "OK")
          ELSE IF \A k \in 1..Len(participantIds): participantIds[k] # r
          THEN Respond(s, q, "Forbidden")
          ELSE Respond(s, [q EXCEPT !.created = findAssignmentForGiver(e, r)], "OK")
    /\ UNCHANGED <<users, backend, store, ids, faulty, generations>>

\* GET /giver/:giverId/exchange/:exchangeId, called by r: the route reads
\* no requester
GetGiverAssignment(s, e, giverId, r) ==
    /\ CanStart(s)
    /\ LET q == [NewRequest("getGiverAssignment", "start", e, giverId)
                   EXCEPT !.requesterId = r]
       IN IF ~getAssignmentForGiver(e, giverId)
          THEN Respond(s, q, "NotFound")
          ELSE Respond(s, [q EXCEPT !.created = findAssignmentForGiver(e, giverId)], "OK")
    /\ UNCHANGED <<users, backend, store, ids, faulty, generations>>

\* GET /recipient/:recipientId/exchange/:exchangeId, called by r
GetRecipientAssignments(s, e, recipientId, r) ==
    /\ CanStart(s)
    /\ LET q == [NewRequest("getRecipientAssignments", "start", e, recipientId)
                   EXCEPT !.requesterId = r]
       IN Respond(s, [q EXCEPT !.created = getAssignmentsForRecipient(e, recipientId)],
                  "OK")
    /\ UNCHANGED <<users, backend, store, ids, faulty, generations>>

\* ----------------------------------------------- POST /api/assignments
\* the single form { exchangeId, giverId, recipientId }: the row goes to
\* db.createAssignment as it came
CreateAssignment(s, e, giverId, recipientId) ==
    /\ CanStart(s)
    /\ Len(assignments) < MaxAssignments
    /\ LET q == NewRequest("createAssignment", "start", e, giverId)
           row == [exchangeId |-> e, giverId |-> giverId, recipientId |-> recipientId]
           accepted == AssignmentInsertAccepted(e, giverId)
       IN \E outcome \in WriteOutcomes:
            /\ assignments' =
                 IF accepted /\ Applied(outcome) THEN Append(assignments, row)
                 ELSE assignments
            /\ IF accepted /\ outcome = "ok"
               THEN Respond(s, [q EXCEPT !.created = <<row>>], "OK")
               ELSE Respond(s, q, "InternalError")
    /\ UNCHANGED <<users, backend, exchanges, participants, pendingParticipants, ids, faulty, generations>>

\* ------------------------------------------ DELETE /api/assignments/:id
\* db.deleteAssignment: k is the place of the row with that id, a place
\* past the end an id no row has
DeleteAssignment(s, k) ==
    /\ CanStart(s)
    /\ LET q == NewRequest("deleteAssignment", "start", "none", "none")
       IN \E outcome \in WriteOutcomes:
            LET found == k <= Len(assignments)
                throws == outcome = "fail" /\ (backend = "json" => found)
            IN  /\ assignments' =
                     IF found /\ Applied(outcome)
                     THEN [j \in 1..(Len(assignments) - 1) |->
                             IF j < k THEN assignments[j] ELSE assignments[j + 1]]
                     ELSE assignments
                /\ IF throws THEN Respond(s, q, "InternalError")
                   ELSE IF ~found THEN Respond(s, q, "NotFound")
                   ELSE Respond(s, q, "OK")
    /\ UNCHANGED <<users, backend, exchanges, participants, pendingParticipants, ids, faulty, generations>>

\* ------------------------------------------------------ the process stops
\* The handlers in flight are gone and answer nothing; the store keeps
\* what the completed writes put there.
Crash ==
    /\ \E s \in Slots: InFlight(s)
    /\ req' = [s \in Slots |-> Idle]
    /\ cur' = 0
    /\ last' = Idle
    /\ UNCHANGED <<users, backend, store, ids, faulty, generations>>

\* -------------------------------------------------------- specifications
\* the steps of the admission routes, run by the handlers of S on the
\* exchange ids of E
AdmissionOf(S, E) ==
    \/ \E s \in S, id \in E, valid \in BOOLEAN: CreateExchange(s, id, valid)
    \/ \E s \in S: CreateExchange_addParticipant(s)
    \/ \E s \in S, e \in E, u \in users: RequestJoin(s, e, u)
    \/ \E s \in S: RequestJoin_getParticipant(s)
    \/ \E s \in S: RequestJoin_getPendingParticipant(s)
    \/ \E s \in S: RequestJoin_addPendingParticipant(s)
    \/ \E s \in S, e \in E, u \in users: ApproveParticipant(s, e, u)
    \/ \E s \in S: ApproveParticipant_getPendingParticipant(s)
    \/ \E s \in S: ApproveParticipant_removePendingParticipant(s)
    \/ \E s \in S: ApproveParticipant_addParticipant(s)

Admission(S) == AdmissionOf(S, ExchangeIds)

Declining(S) ==
    \/ \E s \in S, e \in ExchangeIds, u \in users: DeclineParticipant(s, e, u)
    \/ \E s \in S: DeclineParticipant_removePendingParticipant(s)

GenerationOf(S, E) ==
    \/ \E s \in S, e \in E: GenerateAssignments(s, e)
    \/ \E s \in S: GenerateAssignments_getParticipants(s)
    \/ \E s \in S: GenerateAssignments_createAssignment(s)
    \/ \E s \in S: GenerateAssignments_updateExchange(s)

Generation(S) == GenerationOf(S, ExchangeIds)

Maintenance(S) ==
    \/ \E s \in S, e \in ExchangeIds, body \in PatchBodies: PatchExchange(s, e, body)
    \/ \E s \in S: PatchExchange_updateExchange(s)
    \/ \E s \in S, e \in ExchangeIds: DeleteExchange(s, e)

\* Spec: every route, one request at a time, store writes that can throw
\* and a process that can stop
Next ==
    \/ Admission({1})
    \/ Declining({1})
    \/ Generation({1})
    \/ Maintenance({1})
    \/ Crash

Spec == Init /\ [][Next]_vars

\* SpecAdmission: two requests in flight on the admission routes
NextAdmission ==
    \/ Admission(Slots)
    \/ Declining(Slots)

SpecAdmission == Init /\ [][NextAdmission]_vars

\* SpecGenerate: two requests in flight, admission and generation
NextGenerate ==
    \/ Admission(Slots)
    \/ Generation(Slots)

SpecGenerate == InitReliable /\ [][NextGenerate]_vars

\* SpecLate: one request at a time, with a user left over once three
\* participate
NextLate ==
    \/ Admission({1})
    \/ Declining({1})
    \/ Generation({1})

SpecLate == InitMoreUsers /\ [][NextLate]_vars

\* the read routes of the assignments
Reading(S) ==
    \/ \E s \in S, e \in ExchangeIds, r \in MoreUsers: GetExchangeAssignments(s, e, r)
    \/ \E s \in S, e \in ExchangeIds, g \in users, r \in users:
          GetGiverAssignment(s, e, g, r)
    \/ \E s \in S, e \in ExchangeIds, u \in users, r \in users:
          GetRecipientAssignments(s, e, u, r)

\* the client operations that end in a PATCH
Client(S) ==
    \/ \E s \in S, e \in ExchangeIds, u \in users: Exchange_removeParticipant(s, e, u)
    \/ \E s \in S: Exchange_save(s)

\* SpecClient: one request at a time, admission, generation and the client
NextClient ==
    \/ Admission({1})
    \/ Generation({1})
    \/ Client({1})

SpecClient == InitReliable /\ [][NextClient]_vars

\* the write routes of the assignments
AssignmentRoutes(S) ==
    \E s \in S, k \in 1..MaxAssignments: DeleteAssignment(s, k)

\* SpecAssignments: one request at a time, admission, generation and the
\* assignment routes
NextAssignments ==
    \/ Admission({1})
    \/ Generation({1})
    \/ AssignmentRoutes({1})

SpecAssignments == InitReliable /\ [][NextAssignments]_vars

\* SpecRead: one request at a time, admission, generation and the reads
NextRead ==
    \/ Admission({1})
    \/ Generation({1})
    \/ Reading({1})

SpecRead == InitReliable /\ [][NextRead]_vars

\* ------------------------------------------------------------ properties
\* what GET /api/exchanges/:id lists for the exchange
ParticipantIds(e) ==
    {participants[k].userId :
        k \in {j \in 1..Len(participants) : participants[j].exchangeId = e}}

PendingIds(e) ==
    {pendingParticipants[k].userId :
        k \in {j \in 1..Len(pendingParticipants) :
                 pendingParticipants[j].exchangeId = e}}

NumAssignments(e) == Len(getAssignmentsByExchangeId(e))

NumParticipants(e) == Len(getParticipantsByExchangeId(e))

Generated(e) == e \in DOMAIN exchanges /\ exchanges[e].assignmentsGenerated

GenerateInFlight(e) ==
    \E s \in Slots: req[s].op = "generate" /\ req[s].exchangeId = e

\* the step just taken answered a request of this route
Answered(op) == last.pc = "done" /\ last.op = op

\* C1: of the Generate requests that run concurrently on an exchange with
\* at least 3 participants and the flag still false, exactly one succeeds
\* and every other one fails AlreadyGenerated; no state holds two
\* assignment sets for one exchange (two rows of the same giver).
C1_ExactlyOneGenerateWins ==
    \A e \in ExchangeIds:
        /\ generations[e] <= 1
        /\ \A j, k \in 1..Len(assignments):
             (j # k /\ assignments[j].exchangeId = e /\ assignments[k].exchangeId = e)
                => assignments[j].giverId # assignments[k].giverId
        /\ (/\ Answered("generate")
            /\ last.exchangeId = e
            /\ Len(last.userIds) >= MinParticipants
            /\ \A j, k \in 1..Len(last.userIds):
                  last.userIds[j] = last.userIds[k] => j = k)
              => last.result \in {"OK", "AlreadyGenerated"}

\* C2: the assignments a successful Generate returns are a bijection on the
\* participant list it read: every participant once as giver, once as
\* recipient, nobody else, nobody their own recipient.
C2_ReturnedAssignmentsAreBijection ==
    (Answered("generate") /\ last.result = "OK") =>
        LET n == Len(last.created)
            P == {last.userIds[k] : k \in 1..Len(last.userIds)}
            givers == {last.created[k].giverId : k \in 1..n}
            recipients == {last.created[k].recipientId : k \in 1..n}
        IN  /\ n = Len(last.userIds)
            /\ n >= MinParticipants
            /\ Cardinality(givers) = n
            /\ Cardinality(recipients) = n
            /\ givers = P
            /\ recipients = P
            /\ \A k \in 1..n: last.created[k].giverId # last.created[k].recipientId

\* C3: once a Generate on an exchange has succeeded, every later Generate
\* on it fails AlreadyGenerated, whatever was done to the exchange in
\* between; Generate succeeds at most once per exchange.
C3_GenerateIsOneShot ==
    \A e \in DOMAIN exchanges:
        /\ generations[e] <= 1
        /\ (/\ Answered("generate")
            /\ last.exchangeId = e
            /\ generations[e] >= 1
            /\ last.result # "OK")
              => last.result = "AlreadyGenerated"

\* C4: no step takes the stored assignmentsGenerated flag of an exchange
\* from true back to false.
C4_FlagIsMonotonic ==
    [][\A e \in ExchangeIds:
          (Generated(e) /\ e \in DOMAIN exchanges')
             => exchanges'[e].assignmentsGenerated]_vars

\* C5: after Generate has succeeded on an exchange, every approve and every
\* decline on it is answered ExchangeClosed.
C5_AdmissionClosedAfterGenerate ==
    \A e \in DOMAIN exchanges:
        (/\ Answered("approve") \/ Answered("decline")
         /\ last.exchangeId = e
         /\ generations[e] >= 1)
           => last.result = "ExchangeClosed"

\* C6: while assignmentsGenerated is true for an exchange, no step other
\* than deleting the exchange changes its participant set or its
\* pending-request set.
C6_SetsFrozenOnceGenerated ==
    [][\A e \in ExchangeIds:
          (Generated(e) /\ e \in DOMAIN exchanges')
             => /\ ParticipantIds(e)' = ParticipantIds(e)
                /\ PendingIds(e)' = PendingIds(e)]_vars

\* C7: no (exchangeId, userId) pair has both a Participant record and a
\* PendingRequest record.
C7_ParticipantXorPending ==
    \A e \in ExchangeIds: ParticipantIds(e) \cap PendingIds(e) = {}

\* C8: there is at most one Participant record and at most one
\* PendingRequest record per (exchangeId, userId).
C8_OneRecordPerPair ==
    /\ \A j, k \in 1..Len(participants):
          participants[j] = participants[k] => j = k
    /\ \A j, k \in 1..Len(pendingParticipants):
          pendingParticipants[j] = pendingParticipants[k] => j = k

\* C9: Generate stores its n Assignment records all or nothing: once no
\* Generate is running on an exchange, whether it answered, failed on a
\* write or was cut off by a process stop, the exchange has either no
\* Assignment record or at least one per participant.
C9_AssignmentsAllOrNothing ==
    \A e \in ExchangeIds:
        ~GenerateInFlight(e) =>
            \/ NumAssignments(e) = 0
            \/ NumAssignments(e) >= NumParticipants(e)

\* C10: outside a running Generate an exchange has Assignment records if
\* and only if its assignmentsGenerated flag is true.
C10_RecordsIffFlag ==
    \A e \in DOMAIN exchanges:
        ~GenerateInFlight(e) =>
            (NumAssignments(e) > 0 <=> exchanges[e].assignmentsGenerated)

\* C11: when an approve that has found the pending request leaves the
\* server, answered or cut off by a write failure or a process stop, the
\* user is in exactly one of the two sets of the exchange: pending or
\* participant, never in neither and never in both.
C11_ApproveLeavesUserInOneSet ==
    [][\A s \in Slots:
          (/\ req[s].op = "approve"
           /\ req[s].pc \in {"removePending", "addParticipant"}
           /\ ~InFlight(s)'
           /\ req[s].exchangeId \in DOMAIN exchanges')
             => (req[s].userId \in ParticipantIds(req[s].exchangeId)')
                   # (req[s].userId \in PendingIds(req[s].exchangeId)')]_vars

\* C12: a read route returns an assignment, and with it its recipientId,
\* only to the giver of that assignment.
C12_RecipientOnlyToGiver ==
    (/\ last.pc = "done"
     /\ last.op \in {"getExchangeAssignments", "getGiverAssignment",
                     "getRecipientAssignments"})
        => \A k \in 1..Len(last.created):
              last.created[k].giverId = last.requesterId

\* C13: a RemoveParticipant that succeeds has deleted the user's
\* Participant record, so the exchange no longer lists the user; on an
\* exchange whose assignmentsGenerated is true it fails ExchangeClosed.
C13_RemoveParticipantRemoves ==
    Answered("removeParticipant") =>
        /\ last.result = "OK" => last.userId \notin ParticipantIds(last.exchangeId)
        /\ last.seen => last.result = "ExchangeClosed"

\* C14: a request-join is answered NotFound when the exchange does not
\* exist, AlreadyParticipant when the user is a participant of it (the
\* creator included), AlreadyPending when the user has a pending request,
\* each time with participants and pending requests unchanged; otherwise
\* it appends exactly one PendingRequest for the pair and changes nothing
\* else.
C14_RequestJoinContract ==
    [][(last'.pc = "done" /\ last'.op = "requestJoin") =>
          LET e == last'.exchangeId
              u == last'.userId
              result == last'.result
          IN  IF e \notin DOMAIN exchanges
              THEN result = "NotFound" /\ UNCHANGED store
              ELSE IF u \in ParticipantIds(e)
              THEN result = "AlreadyParticipant" /\ UNCHANGED store
              ELSE IF u \in PendingIds(e)
              THEN result = "AlreadyPending" /\ UNCHANGED store
              ELSE /\ result = "OK"
                   /\ pendingParticipants' =
                        Append(pendingParticipants, [exchangeId |-> e, userId |-> u])
                   /\ UNCHANGED <<exchanges, participants, assignments>>]_vars

C14_RequestJoinAlreadyPending ==
    /\ Answered("requestJoin")
    /\ last.result = "AlreadyPending"
    /\ last.userId \in PendingIds(last.exchangeId)
    /\ last.userId \notin ParticipantIds(last.exchangeId)

\* C15: an approve or a decline that finds no pending request for the pair
\* is answered NoPendingRequest and changes nothing; an approve that
\* succeeds leaves the user a participant and not pending; and a user who
\* is not pending becomes pending only by a request-join of their own, so
\* after a successful approve every approve and decline of the pair is
\* answered NoPendingRequest until the user requests again.
C15_ApproveThenNoPendingRequest ==
    [][/\ \A s \in Slots:
            LET e == req[s].exchangeId
                u == req[s].userId
            IN  (/\ \/ req[s].op = "approve" /\ req[s].pc = "getPending"
                    \/ req[s].op = "decline" /\ req[s].pc = "removePending"
                 /\ req'[s] # req[s]
                 /\ e \in DOMAIN exchanges
                 /\ u \notin PendingIds(e))
                   => /\ last'.pc = "done"
                      /\ last'.result = "NoPendingRequest"
                      /\ UNCHANGED store
       /\ \A e \in ExchangeIds, u \in users:
             (/\ last'.pc = "done" /\ last'.op = "approve" /\ last'.result = "OK"
              /\ last'.exchangeId = e /\ last'.userId = u)
                => /\ u \in ParticipantIds(e)'
                   /\ u \notin PendingIds(e)'
       /\ \A e \in ExchangeIds, u \in users:
             (u \notin PendingIds(e) /\ u \in PendingIds(e)')
                => /\ last'.pc = "done" /\ last'.op = "requestJoin"
                   /\ last'.exchangeId = e /\ last'.userId = u]_vars

\* a decline of a user whose request was approved is answered
\* NoPendingRequest
C15_DeclineAfterApprove ==
    /\ Answered("decline")
    /\ last.result = "NoPendingRequest"
    /\ last.userId \in ParticipantIds(last.exchangeId) \ {Creator}

\* C16: a request-join of a user who is neither participant nor pending
\* adds that user to the pending set and nothing else; the decline that
\* follows takes exactly that user out again, so both sets are what they
\* were before the request, the user is in neither, and a fresh
\* request-join of the user succeeds.
C16_RequestThenDeclineRestores ==
    [][\A e \in ExchangeIds, u \in users:
          (last'.pc = "done" /\ last'.exchangeId = e /\ last'.userId = u) =>
             /\ (/\ last'.op = "requestJoin"
                 /\ e \in DOMAIN exchanges
                 /\ u \notin ParticipantIds(e) \cup PendingIds(e))
                   => /\ last'.result = "OK"
                      /\ PendingIds(e)' = PendingIds(e) \cup {u}
                      /\ ParticipantIds(e)' = ParticipantIds(e)
             /\ (last'.op = "decline" /\ last'.result = "OK")
                   => /\ u \in PendingIds(e)
                      /\ PendingIds(e)' = PendingIds(e) \ {u}
                      /\ ParticipantIds(e)' = ParticipantIds(e)
                      /\ u \notin ParticipantIds(e)' \cup PendingIds(e)']_vars

\* a request was declined while another user's request stays pending
C16_DeclinedBackToNeither ==
    /\ Answered("decline")
    /\ last.result = "OK"
    /\ last.userId \notin ParticipantIds(last.exchangeId) \cup PendingIds(last.exchangeId)
    /\ PendingIds(last.exchangeId) # {}

\* C17: a decline that succeeds leaves the pair without a pending request,
\* and a decline of a pair without a pending request, such as the retry
\* of a successful one, is answered NoPendingRequest and leaves the whole
\* store as it was.
C17_DeclineRetryIsNoOp ==
    [][\A e \in ExchangeIds, u \in users:
          (/\ last'.pc = "done" /\ last'.op = "decline"
           /\ last'.exchangeId = e /\ last'.userId = u
           /\ e \in DOMAIN exchanges)
             => /\ last'.result = "OK" => u \notin PendingIds(e)'
                /\ u \notin PendingIds(e)
                     => last'.result = "NoPendingRequest" /\ UNCHANGED store]_vars

\* a decline answered NoPendingRequest for a user who is in neither set
C17_DeclineOfNobody ==
    /\ Answered("decline")
    /\ last.result = "NoPendingRequest"
    /\ last.exchangeId \in DOMAIN exchanges
    /\ last.userId \notin ParticipantIds(last.exchangeId) \cup PendingIds(last.exchangeId)

C19_GenerateBoundary ==
    [][\A e \in DOMAIN exchanges:
          /\ \A s \in Slots:
                (/\ req[s].op = "generate" /\ req[s].pc = "getParticipants"
                 /\ req[s].exchangeId = e
                 /\ req'[s] # req[s])
                   => IF NumParticipants(e) < 3
                      THEN /\ last'.pc = "done"
                           /\ last'.result = "InsufficientParticipants"
                           /\ UNCHANGED store
                           /\ NumAssignments(e) = 0
                           /\ ~exchanges[e].assignmentsGenerated
                      ELSE ~req[s].seen => req'[s].pc = "createAssignment"
          /\ (/\ last'.pc = "done" /\ last'.op = "generate"
              /\ last'.exchangeId = e
              /\ Len(last'.userIds) = 3)
                => LET P == last'.userIds
                       a == last'.created
                       to == [g \in {P[k] : k \in 1..3} |->
                                (CHOOSE k \in 1..3: a[k].giverId = g)]
                   IN  /\ last'.result = "OK"
                       /\ Len(a) = 3
                       /\ \A k \in 1..3: a[k].giverId = P[k]
                       /\ \A k \in 1..3:
                            LET g == P[k]
                                r1 == a[to[g]].recipientId
                                r2 == a[to[r1]].recipientId
                                r3 == a[to[r2]].recipientId
                            IN  r1 # g /\ r2 # g /\ r3 = g]_vars

C19_ThreeCycleGenerated ==
    /\ Answered("generate")
    /\ last.result = "OK"
    /\ Len(last.created) = 3
    /\ NumAssignments(last.exchangeId) = 3

\* C20: an exchange on which Generate succeeded has as many Assignment
\* records as it had participants at the generation, right after the
\* Generate and in every later state in which it exists.  (Where requests
\* run one at a time and three users are registered, the participants at
\* the generation are the participants of every later state.)
C20_AssignmentCountStays ==
    \A e \in DOMAIN exchanges:
        generations[e] >= 1 => NumAssignments(e) = NumParticipants(e)

\* --------------------------- the client: Exchange.canGenerateAssignments
\* The guard on new Exchange(data), data being what GET /api/exchanges/:id
\* returns for e now: the stored row with the list of its participants.
Exchange_canGenerateAssignments(e) ==
    /\ exchanges[e].status = "open"
    /\ ~exchanges[e].assignmentsGenerated
    /\ Len(UserIdsOf(getParticipantsByExchangeId(e))) >= 3

\* C21: the client guard canGenerateAssignments, evaluated on a fresh
\* snapshot of an exchange the server created, is true if and only if the
\* server's Generate on that exchange passes its two precondition checks
\* and goes on to store assignments.
C21_ClientGuardMatchesServer ==
    [][\A s \in Slots, e \in DOMAIN exchanges:
          (/\ req[s].op = "generate" /\ req[s].pc = "getParticipants"
           /\ req[s].exchangeId = e
           /\ req'[s] # req[s])
             => (Exchange_canGenerateAssignments(e)
                   <=> req'[s].pc = "createAssignment")]_vars

\* SpecDelete: one request at a time on two exchanges: admission,
\* generation and the deletion of an exchange
NextDelete ==
    \/ AdmissionOf({1}, MoreExchangeIds)
    \/ GenerationOf({1}, MoreExchangeIds)
    \/ \E e \in MoreExchangeIds: DeleteExchange(1, e)

SpecDelete == InitReliable /\ [][NextDelete]_vars

\* C22: a DELETE of an exchange that succeeds removes the exchange and
\* leaves no Participant, PendingRequest or Assignment record with its id,
\* while the rows of every other exchange, and the other exchanges, stay
\* as they were; a DELETE of an id no exchange has is answered NotFound
\* and changes nothing.
C22_DeleteCascades ==
    [][\A e \in MoreExchangeIds:
          (last'.pc = "done" /\ last'.op = "delete" /\ last'.exchangeId = e) =>
             /\ last'.result = "OK" =>
                  /\ e \in DOMAIN exchanges
                  /\ DOMAIN exchanges' = DOMAIN exchanges \ {e}
                  /\ \A x \in DOMAIN exchanges': exchanges'[x] = exchanges[x]
                  /\ \A k \in 1..Len(participants'): participants'[k].exchangeId # e
                  /\ \A k \in 1..Len(pendingParticipants'):
                        pendingParticipants'[k].exchangeId # e
                  /\ \A k \in 1..Len(assignments'): assignments'[k].exchangeId # e
                  /\ participants' =
                        SelectSeq(participants, LAMBDA p: p.exchangeId # e)
                  /\ pendingParticipants' =
                        SelectSeq(pendingParticipants, LAMBDA p: p.exchangeId # e)
                  /\ assignments' =
                        SelectSeq(assignments, LAMBDA a: a.exchangeId # e)
             /\ e \notin DOMAIN exchanges
                  => last'.result = "NotFound" /\ UNCHANGED store
             /\ last'.result = "NotFound" => e \notin DOMAIN exchanges]_vars

\* a generated exchange was deleted while the other one has its creator
\* as participant and a pending request
C22_DeletedBesideAnother ==
    /\ Answered("delete")
    /\ last.result = "OK"
    /\ generations[last.exchangeId] >= 1
    /\ participants # <<>>
    /\ pendingParticipants # <<>>

\* SpecPost: one request at a time, admission, generation and the POST of
\* an assignment whose recipient is the creator
NextPost ==
    \/ Admission({1})
    \/ Generation({1})
    \/ \E e \in ExchangeIds, g \in users: CreateAssignment(1, e, g, Creator)

SpecPost == InitReliable /\ [][NextPost]_vars

\* C23: once a Generate on an exchange has succeeded, no step changes the
\* Assignment records of that exchange, in number, order or content, for
\* as long as the exchange exists.
C23_AssignmentsImmutable ==
    [][\A e \in ExchangeIds:
          (generations[e] >= 1 /\ e \in DOMAIN exchanges')
             => getAssignmentsByExchangeId(e)' = getAssignmentsByExchangeId(e)]_vars

\* SpecStrangers: one request at a time on the admission routes, with
\* request-join and approve-participant also called for a userId that is
\* not registered
NextStrangers ==
    \/ Admission({1})
    \/ \E e \in ExchangeIds, u \in MoreUsers \ users: RequestJoin(1, e, u)
    \/ \E e \in ExchangeIds, u \in MoreUsers \ users: ApproveParticipant(1, e, u)

SpecStrangers == InitReliable /\ [][NextStrangers]_vars

\* C24: a request-join or an approve on an existing exchange whose userId
\* names no registered user is answered NotFound, and no PendingRequest or
\* Participant record ever carries a userId that names no registered user.
C24_UnknownUserRejected ==
    /\ (/\ Answered("requestJoin") \/ Answered("approve")
        /\ last.exchangeId \in DOMAIN exchanges
        /\ getUserById(last.userId) = Undefined)
          => last.result = "NotFound"
    /\ \A k \in 1..Len(pendingParticipants):
          getUserById(pendingParticipants[k].userId) # Undefined
    /\ \A k \in 1..Len(participants):
          getUserById(participants[k].userId) # Undefined

\* SpecBackends: one request at a time, the lifecycle routes, with
\* request-join and approve-participant also called for a userId that is
\* not registered
NextBackends ==
    \/ NextStrangers
    \/ Declining({1})
    \/ Generation({1})
    \/ \E e \in ExchangeIds: DeleteExchange(1, e)

SpecBackends == InitReliable /\ [][NextBackends]_vars

\* C25: the stores are interchangeable on the lifecycle routes.  The
\* handlers are the same code for every store and the reads of the stores
\* agree on equal contents, so the stores answer a sequence of requests
\* alike exactly when every insert a handler makes is taken by all of them
\* alike: the row of request-join, of approve-participant and of create,
\* and each row of generate-assignments.
C25_BackendsInterchangeable ==
    [][\A s \in Slots, b1 \in Backends, b2 \in Backends:
          LET e == req[s].exchangeId
              u == req[s].userId
          IN  req'[s] # req[s] =>
                /\ (req[s].op = "requestJoin" /\ req[s].pc = "addPending")
                     => PendingInsertAcceptedBy(b1, e, u)
                           = PendingInsertAcceptedBy(b2, e, u)
                /\ (req[s].op \in {"approve", "create"}
                       /\ req[s].pc = "addParticipant")
                     => ParticipantInsertAcceptedBy(b1, e, u)
                           = ParticipantInsertAcceptedBy(b2, e, u)
                /\ (req[s].op = "generate" /\ req[s].pc = "createAssignment")
                     => LET g == req[s].userIds[Len(req[s].created) + 1]
                        IN  AssignmentInsertAcceptedBy(b1, e, g)
                              = AssignmentInsertAcceptedBy(b2, e, g)]_vars

\* the client's status methods
StatusMethods(S) ==
    \/ \E s \in S, e \in ExchangeIds: Exchange_close(s, e)
    \/ \E s \in S, e \in ExchangeIds: Exchange_reopen(s, e)
    \/ \E s \in S, e \in ExchangeIds: Exchange_complete(s, e)
    \/ \E s \in S: Exchange_save(s)

\* SpecStatus: one request at a time, admission, generation and the
\* client's status methods
NextStatus ==
    \/ Admission({1})
    \/ Generation({1})
    \/ StatusMethods({1})

SpecStatus == InitReliable /\ [][NextStatus]_vars

\* C26: the status of an exchange only moves forward: no step takes the
\* status of an exchange whose assignments are generated back to 'open',
\* and an exchange has status 'completed' or 'closed' only if its
\* assignments have been generated.
C26_StatusOnlyForward ==
    [][\A e \in DOMAIN exchanges':
          /\ (Generated(e) /\ exchanges[e].status # "open")
                => exchanges'[e].status # "open"
          /\ exchanges'[e].status \in {"completed", "closed"}
                => generations[e] >= 1]_vars

\* ------------------------------------ the shuffle and the repair pass
\* The two loops of generate-assignments, run on their own on every list
\* of distinct ids: userIds is P, recipients is R.
\* the ids the lists are made of
ListIds == {"A", "B", "C", "D", "E"}

DistinctLists(S, lo, hi) ==
    UNION {{P \in [1..n -> S] : \A j, k \in 1..n: P[j] = P[k] => j = k} :
             n \in lo..hi}

PermutationsOf(P) ==
    {R \in [1..Len(P) -> {P[k] : k \in 1..Len(P)}] :
        \A j, k \in 1..Len(P): R[j] = R[k] => j = k}

\* the store is empty and handler 1 holds the lists P and R
InitLoops(pc, P, R) ==
    /\ users = MoreUsers
    /\ backend = "json"
    /\ exchanges = << >>
    /\ participants = <<>>
    /\ pendingParticipants = <<>>
    /\ assignments = <<>>
    /\ req = [s \in Slots |->
                IF s = 1
                THEN [Idle EXCEPT !.op = "generate", !.pc = pc,
                                  !.userIds = P, !.recipients = R]
                ELSE Idle]
    /\ cur = 1
    /\ last = Idle
    /\ ids = {}
    /\ faulty = FALSE
    /\ generations = [e \in MoreExchangeIds |-> 0]

\* recipients = [...userIds], before the shuffle
InitShuffle ==
    \E P \in DistinctLists(ListIds, 2, MaxParticipants):
        InitLoops("shuffle", P, P)

\* recipients is any permutation of userIds, before the repair pass
InitRepair ==
    \E P \in DistinctLists(ListIds, 2, MaxParticipants):
        \E R \in PermutationsOf(P): InitLoops("fixPass", P, R)

\* the Sattolo loop
SattoloShuffle(s) ==
    /\ CanStep(s, "generate", "shuffle")
    /\ \E js \in ShuffleChoices(Len(req[s].userIds)):
         req' = [req EXCEPT ![s] =
                   [@ EXCEPT !.recipients = shuffle(req[s].userIds, js),
                             !.pc = "fixPass"]]
    /\ UNCHANGED <<users, backend, store, cur, last, ids, faulty, generations>>

\* the repair loop
FixPointPass(s) ==
    /\ CanStep(s, "generate", "fixPass")
    /\ req' = [req EXCEPT ![s] =
                 [@ EXCEPT !.recipients = fixPass(req[s].userIds, req[s].recipients),
                           !.pc = "persist"]]
    /\ UNCHANGED <<users, backend, store, cur, last, ids, faulty, generations>>

NextShuffle ==
    \/ SattoloShuffle(1)
    \/ FixPointPass(1)

\* SpecShuffle: the shuffle, then the repair pass, on every list of 2 to
\* MaxParticipants distinct ids
SpecShuffle == InitShuffle /\ [][NextShuffle]_vars

NextRepair == FixPointPass(1)

\* SpecRepair: the repair pass on every permutation of every such list
SpecRepair == InitRepair /\ [][NextRepair]_vars

\* the place of v in P
IndexIn(P, v) == CHOOSE k \in 1..Len(P): P[k] = v

\* the number of steps along P[i] -> R[i] from place k back to place 1,
\* given c steps were made to reach k; 0 when it takes more than Len(P)
RECURSIVE StepsBack(_, _, _, _)
StepsBack(P, R, k, c) ==
    IF k = 1 THEN c
    ELSE IF c >= Len(P) THEN 0
    ELSE StepsBack(P, R, IndexIn(P, R[k]), c + 1)

\* the map P[i] -> R[i] is one cycle through all of P
IsSingleCycle(P, R) == StepsBack(P, R, IndexIn(P, R[1]), 1) = Len(P)

NoFixedPoint(P, R) == \A k \in 1..Len(P): R[k] # P[k]

\* C27: on a list P of n >= 2 distinct ids, whatever j in [0, i-1] is drawn
\* for each i, the shuffle leaves an R that is a permutation of P whose
\* map P[i] -> R[i] is a single cycle of length n; so R[i] differs from
\* P[i] at every index and the repair pass swaps nothing.
C27_ShuffleIsSingleCycle ==
    (req[1].op = "generate" /\ req[1].pc = "fixPass") =>
        LET P == req[1].userIds
            R == req[1].recipients
        IN  /\ R \in PermutationsOf(P)
            /\ IsSingleCycle(P, R)
            /\ NoFixedPoint(P, R)
            /\ fixPass(P, R) = R

\* a list of four ids was shuffled and not yet repaired
C27_FourShuffled ==
    /\ req[1].op = "generate"
    /\ req[1].pc = "fixPass"
    /\ Len(req[1].userIds) = 4
    /\ req[1].recipients # req[1].userIds

\* C28: on a list P of n >= 2 distinct ids and any permutation R of it,
\* with any number of fixed points, one repair pass ends with R still a
\* permutation of P and different from P at every index.
C28_OnePassRepairs ==
    [][(req[1].op = "generate" /\ req[1].pc = "fixPass"
           /\ req'[1].pc = "persist") =>
          /\ req'[1].recipients = fixPass(req[1].userIds, req[1].recipients)
          /\ req'[1].userIds = req[1].userIds
          /\ req'[1].recipients \in PermutationsOf(req[1].userIds)
          /\ NoFixedPoint(req[1].userIds, req'[1].recipients)]_vars

\* the pass has run on a list of four ids and left what it makes of the
\* permutation that has a fixed point at every index
C28_FourRepaired ==
    /\ req[1].op = "generate"
    /\ req[1].pc = "persist"
    /\ Len(req[1].userIds) = 4
    /\ req[1].recipients = fixPass(req[1].userIds, req[1].userIds)
    /\ IsSingleCycle(req[1].userIds, req[1].recipients) = FALSE

\* C29: a Generate answered AssignmentGenerationFailed has stored no
\* Assignment record, and where no Generate has succeeded on the exchange
\* its assignmentsGenerated flag is still false.
C29_FailsBeforePersisting ==
    (Answered("generate") /\ last.result = "AssignmentGenerationFailed") =>
        /\ last.created = <<>>
        /\ (last.exchangeId \in DOMAIN exchanges /\ generations[last.exchangeId] = 0)
              => ~exchanges[last.exchangeId].assignmentsGenerated

\* SpecRace: the admission routes in handler 1 and, while a request is
\* in flight there, a decline in handler 2; no two approves overlap, so a
\* pending request that goes while an approve is in flight was declined
NextRace ==
    \/ Admission({1})
    \/ Declining({2})

SpecRace == InitReliable /\ [][NextRace]_vars

\* C30: of an approve and a decline that run concurrently on one pending
\* request exactly one succeeds: an approve whose pending request was
\* declined after the approve looked for it is answered NoPendingRequest
\* and does not make the user a participant.
C30_ApproveXorDecline ==
    [][\A s \in Slots:
          (/\ req[s].op = "approve"
           /\ req[s].pc = "removePending"
           /\ req'[s] # req[s]
           /\ req[s].userId \notin PendingIds(req[s].exchangeId))
             => /\ last'.pc = "done"
                /\ last'.result = "NoPendingRequest"]_vars

\* SpecInterleave: the admission routes in handler 1 and, while a request
\* is in flight there, a Generate in handler 2, with a user left over once
\* three participate
NextInterleave ==
    \/ Admission({1})
    \/ Generation({2})

SpecInterleave == InitMoreUsers /\ [][NextInterleave]_vars

\* the giverIds of the assignments of e
GiverIds(e) ==
    {assignments[k].giverId :
        k \in {j \in 1..Len(assignments) : assignments[j].exchangeId = e}}

\* C31: when a Generate sets assignmentsGenerated and answers, the givers
\* of the exchange's assignments are exactly its participants at that
\* moment, also when an approve ran between the Generate's read of the
\* participant list and its write of the flag.
C31_GiversAreParticipants ==
    \A e \in DOMAIN exchanges:
        (Answered("generate") /\ last.result = "OK" /\ last.exchangeId = e)
            => /\ exchanges[e].assignmentsGenerated
               /\ GiverIds(e) = ParticipantIds(e)

\* SpecOrphans: the admission and generation routes in handler 1 and,
\* while a request is in flight there, the deletion of an exchange in
\* handler 2
NextOrphans ==
    \/ Admission({1})
    \/ Generation({1})
    \/ \E e \in ExchangeIds: DeleteExchange(2, e)

SpecOrphans == InitReliable /\ [][NextOrphans]_vars

\* C32: every Participant, PendingRequest and Assignment record carries
\* the id of an exchange that exists, also when the exchange is deleted
\* while a request-join, an approve or a Generate on it is in flight past
\* its exchange-exists check.
C32_RecordsReferenceAnExchange ==
    /\ \A k \in 1..Len(participants):
          getExchangeById(participants[k].exchangeId) # Undefined
    /\ \A k \in 1..Len(pendingParticipants):
          getExchangeById(pendingParticipants[k].exchangeId) # Undefined
    /\ \A k \in 1..Len(assignments):
          getExchangeById(assignments[k].exchangeId) # Undefined

\* C33: Create is all-or-nothing: when the insert of the creator's
\* Participant record fails after the Exchange record was stored, the
\* Exchange record does not remain; and every exchange on which no Create
\* is running lists its creator as a participant.
C33_CreateAllOrNothing ==
    [][/\ \A s \in Slots:
            (/\ req[s].op = "create" /\ req[s].pc = "addParticipant"
             /\ last'.pc = "done" /\ last'.op = "create"
             /\ last'.result # "OK")
               => req[s].exchangeId \notin DOMAIN exchanges'
       /\ \A e \in DOMAIN exchanges':
            (\A s \in Slots: ~(req'[s].op = "create" /\ req'[s].exchangeId = e))
               => exchanges'[e].createdBy \in ParticipantIds(e)']_vars

\* SpecLocal: one request at a time on two exchanges: admission, decline
\* and generation
NextLocal ==
    \/ AdmissionOf({1}, MoreExchangeIds)
    \/ \E e \in MoreExchangeIds, u \in users: DeclineParticipant(1, e, u)
    \/ DeclineParticipant_removePendingParticipant(1)
    \/ GenerationOf({1}, MoreExchangeIds)

SpecLocal == InitReliable /\ [][NextLocal]_vars

\* the routes that act on a pair (exchange, user)
AdmissionOps == {"requestJoin", "approve", "decline"}

\* the step leaves alone every record but those of the pair (e, u)
OnlyThePairChanges(e, u) ==
    /\ SelectSeq(participants', LAMBDA p: ~(p.exchangeId = e /\ p.userId = u))
          = SelectSeq(participants, LAMBDA p: ~(p.exchangeId = e /\ p.userId = u))
    /\ SelectSeq(pendingParticipants', LAMBDA p: ~(p.exchangeId = e /\ p.userId = u))
          = SelectSeq(pendingParticipants,
                      LAMBDA p: ~(p.exchangeId = e /\ p.userId = u))
    /\ assignments' = assignments
    /\ DOMAIN exchanges' = DOMAIN exchanges
    /\ \A x \in DOMAIN exchanges:
          exchanges'[x].assignmentsGenerated = exchanges[x].assignmentsGenerated

\* C34: every step of a request-join, an approve or a decline on a pair
\* (E, U) leaves unchanged the Participant and PendingRequest records of
\* every other user of E, every record of every other exchange, every
\* Assignment record and the assignmentsGenerated flag of every exchange.
C34_AdmissionIsLocal ==
    [][\A e \in MoreExchangeIds, u \in users:
          /\ \A s \in Slots:
                (/\ req'[s] # req[s]
                 /\ \/ /\ req[s].op \in AdmissionOps
                       /\ req[s].exchangeId = e /\ req[s].userId = u
                    \/ /\ req'[s].op \in AdmissionOps
                       /\ req'[s].exchangeId = e /\ req'[s].userId = u)
                   => OnlyThePairChanges(e, u)
          /\ (/\ last'.pc = "done" /\ last'.op \in AdmissionOps
              /\ last'.exchangeId = e /\ last'.userId = u)
                => OnlyThePairChanges(e, u)]_vars

\* a request was declined while another user's request is pending on the
\* same exchange and the other exchange has a participant
C34_DeclinedBesideOthers ==
    /\ Answered("decline")
    /\ last.result = "OK"
    /\ PendingIds(last.exchangeId) # {}
    /\ \E k \in 1..Len(participants): participants[k].exchangeId # last.exchangeId

====
